---- MODULE Spec2Model ----
(***************************************************************************)
(* Model of urls_list_scanner: requests_maker.main reads a list of URL     *)
(* strings, RequestManager fetches them concurrently behind a bounded      *)
(* semaphore with a per-URL retry loop, and the gathered records are       *)
(* written to a JSON file.                                                 *)
(*                                                                         *)
(* One asyncio task per URL runs RequestManager._fetch.  A task is         *)
(* suspended only at its awaits (semaphore acquire, session.get,           *)
(* response.read), so each action below runs one task from one await to    *)
(* the next.  The transport is nondeterministic: every attempt may end in  *)
(* any response or any exception.                                          *)
(***************************************************************************)
EXTENDS Integers, Sequences, FiniteSets, TLC

\* ---------------------------------------------------------------- bounds
\* Longest input list explored.
MaxUrls == 2

\* utils/contants.py sets the cap to 51; the model runs the same code with a
\* smaller cap so that lists longer than the cap stay explorable.
SIMULTANEOUS_CONCURRENT_TASKS == 1

\* ------------------------------------------------------ program constants
LIMIT_OF_ATTEMPTS_TO_RETRY == 5
REQUESTS_RETRIES_NUM_TO_REMOVE == 1
STATUS_CODE_DEFAULT == 0
CONTENT_LENGTH_DEFAULT == 0
STREAM_READER_DEFAULT == 0
BODY_LENGTH_DEFAULT == 0
RESULT_FILE_NAME == "result.json"

\* ---------------------------------------------------------- Python values
\* A JSON-serialisable Python value is an int or a str; the two never compare
\* equal, so each value carries its type.
PyInt(n) == [type |-> "int", val |-> ToString(n)]
PyStr(s) == [type |-> "str", val |-> s]

\* dict.update: keys of upd overwrite, other keys of d stay.
DictUpdate(d, upd) == upd @@ d

EmptyDict == [k \in {} |-> PyInt(0)]

\* ------------------------------------------------------------------ inputs
\* Lines of the input file.  The first has a space in its path, the second
\* needs no quoting, the third is a relative
\* reference, the fourth has an unbalanced bracket in its authority.
SpaceUrl == "http://example.test/a b"
PlainUrl == "http://example.test/ok"
RelativeUrl == "not-a-url"
BracketUrl == "http://["

GoodPool == <<SpaceUrl, PlainUrl, RelativeUrl>>

\* yarl.URL(url) raises ValueError on an authority it cannot split.
URLParses(u) == u # BracketUrl

\* str(yarl.URL(url)): yarl keeps a URL percent-encoded, so a space in the
\* path comes back as %20.
StrOfURL(u) ==
    CASE u = SpaceUrl -> "http://example.test/a%20b"
      [] OTHER -> u

\* Values of the -o/--output option (the first is the default).
OutputOptions == {RESULT_FILE_NAME, "out.json"}

\* ------------------------------------------------------------- transport
NoHeaders == [h \in {} |-> ""]

\* What session.get can deliver: status, headers, the bytes already buffered
\* when the headers arrive (response.content.total_bytes) and the number of
\* bytes response.read() returns.
Responses ==
    { [status |-> 200, headers |-> ("content-length" :> "5"), total_bytes |-> 5, body |-> 5],
      [status |-> 404, headers |-> NoHeaders, total_bytes |-> 0, body |-> 3] }

NoResponse == [status |-> 0, headers |-> NoHeaders, total_bytes |-> 0, body |-> 0]

\* The exception classes named by the except clause of _fetch.
RecognizedTypes ==
    {"ClientConnectorError", "ClientResponseError", "ServerTimeoutError",
     "TimeoutError", "InvalidURL"}

\* Exceptions an attempt can raise; msg is str(e).  aiohttp raises
\* ServerDisconnectedError when the peer closes the connection, and
\* RuntimeError when the session is closed.
TransportErrors ==
    { [type |-> "TimeoutError", msg |-> ""],
      [type |-> "ClientConnectorError", msg |-> "Cannot connect to host"],
      [type |-> "ServerDisconnectedError", msg |-> "Server disconnected"] }

SessionClosedError == [type |-> "RuntimeError", msg |-> "Session is closed"]

NoException == [type |-> "", msg |-> ""]

Recognized(e) == e.type \in RecognizedTypes

\* ------------------------------------------------------------------ state
VARIABLES
    urls,                 \* lines of the input file, in order
    output,               \* RunConfig.output, from -o/--output
    main_pc,              \* where main() is: start, gather, returned, written, raised
    task,                 \* one record per asyncio task created by make_requests
    semaphore,            \* BoundedSemaphore._value: free permits
    session_closed,       \* ClientSession.closed
    failed_requests_num,  \* RequestManager._failed_requests_num
    results,              \* what create_make_requests returned
    files,                \* the file system: name -> text
    finished              \* history: the tasks that returned, in completion order

vars == <<urls, output, main_pc, task, semaphore, session_closed,
          failed_requests_num, results, files, finished>>

Tasks == 1..Len(task)

\* ------------------------------------------------------------------ _fetch
\* A task before its first step: created by asyncio.create_task, waiting to
\* enter "async with self.semaphore".  response is the response of the attempt
\* under way and, once the task has returned, the one whose body it read.
\* attempts, last, exc, acquired and released are history: the session.get
\* calls made, how the latest attempt ended, the exception that ended the
\* task's final attempt, and the acquire()/release() calls made.
NewTask ==
    [pc |-> "acquire", left_of_attempts_to_retry |-> 0, result |-> EmptyDict,
     response |-> NoResponse, attempts |-> 0, last |-> "none", exc |-> NoException,
     acquired |-> 0, released |-> 0]

Ended(t) == t.pc \in {"returned", "raised", "cancelled"}
InGate(t) == t.acquired > t.released

\* Leaving "async with self.semaphore": __aexit__ releases the permit.
ExitGate(t) == [t EXCEPT !.released = @ + 1]

\* Variant: the permit is acquired by hand and the return path forgets to
\* release it.
ReturnKeepsGate(t) == [t EXCEPT !.pc = "returned"]

\* "return result" inside the with block.
Return(t) == ExitGate([t EXCEPT !.pc = "returned"])

\* Variant: the permit is not released when an exception leaves _fetch.
RaiseNoRelease(t, e) ==
    [t EXCEPT !.pc = "raised", !.last = "unexpected", !.exc = e, !.response = NoResponse]

\* An exception the except clause does not name leaves _fetch through the with
\* block.
Raise(t, e) ==
    ExitGate([t EXCEPT !.pc = "raised", !.last = "unexpected", !.exc = e,
                       !.response = NoResponse])

\* "while left_of_attempts_to_retry:" followed by session.get(url, ...), which
\* raises RuntimeError at once when the session is closed.
NextAttempt(t, closed) ==
    IF t.left_of_attempts_to_retry = 0 THEN Return(t)
    ELSE IF closed THEN Raise(t, SessionClosedError)
    ELSE [t EXCEPT !.pc = "get", !.attempts = @ + 1]

\* Entering the with block: the permit is taken, the dict and the counter are
\* created, the first attempt starts.
EnterGate(t, u, closed) ==
    NextAttempt([t EXCEPT !.acquired = @ + 1,
                          !.result = [url |-> PyStr(StrOfURL(u))],
                          !.left_of_attempts_to_retry = LIMIT_OF_ATTEMPTS_TO_RETRY],
                closed)

\* 'content-length' in response.headers and response.headers['content-length']
\* or CONTENT_LENGTH_DEFAULT
ContentLength(headers) ==
    IF "content-length" \in DOMAIN headers /\ headers["content-length"] # ""
    THEN PyStr(headers["content-length"])
    ELSE PyInt(CONTENT_LENGTH_DEFAULT)

SuccessFields(r) ==
    [status_code |-> PyInt(r.status),
     content_length |-> ContentLength(r.headers),
     stream_reader |-> PyInt(r.total_bytes),
     body_length |-> PyInt(r.body),
     error |-> PyStr("")]

\* Variant: the error is str(e) without the fallback.
ErrorTextNoFallback(e) == e.msg

\* e and str(e) or 'Something Went Wrong': an exception object is truthy, so
\* the fallback is taken exactly when str(e) is empty.
ErrorText(e) == IF e.msg # "" THEN e.msg ELSE "Something Went Wrong"

FailureFields(e) ==
    [status_code |-> PyInt(STATUS_CODE_DEFAULT),
     content_length |-> PyInt(CONTENT_LENGTH_DEFAULT),
     stream_reader |-> PyInt(STREAM_READER_DEFAULT),
     body_length |-> PyInt(BODY_LENGTH_DEFAULT),
     error |-> PyStr(ErrorText(e))]

\* Variant: the setter stores the number it is given.
FailedRequestsNumSetterAssigns(cur, num) == num

\* @failed_requests_num.setter: self._failed_requests_num += num.  The read and
\* the write have no await between them, so no other task runs in between.
FailedRequestsNumSetter(cur, num) == cur + num

\* Variant: every failed attempt writes the failure fields, not only the last.
OnExceptionAlwaysRecords(t, e, closed) ==
    IF Recognized(e)
    THEN LET left == t.left_of_attempts_to_retry - REQUESTS_RETRIES_NUM_TO_REMOVE
         IN NextAttempt([t EXCEPT !.left_of_attempts_to_retry = left,
                                  !.last = "transient", !.response = NoResponse,
                                  !.result = DictUpdate(@, FailureFields(e)),
                                  !.exc = IF left = 0 THEN e ELSE @], closed)
    ELSE Raise(t, e)

\* Variant: the with block is inside the loop, so the permit is given back
\* after a failed attempt and the next attempt starts without it.
OnExceptionDropsGate(t, e, closed) ==
    IF Recognized(e)
    THEN LET left == t.left_of_attempts_to_retry - REQUESTS_RETRIES_NUM_TO_REMOVE
             t1 == [t EXCEPT !.left_of_attempts_to_retry = left, !.last = "transient",
                             !.response = NoResponse]
         IN IF left = 0
            THEN NextAttempt([t1 EXCEPT !.result = DictUpdate(@, FailureFields(e)),
                                        !.exc = e], closed)
            ELSE [ExitGate(t1) EXCEPT !.pc = "get", !.attempts = @ + 1]
    ELSE Raise(t, e)

\* session.get or response.read raised e.
OnException(t, e, closed) ==
    IF Recognized(e)
    THEN LET left == t.left_of_attempts_to_retry - REQUESTS_RETRIES_NUM_TO_REMOVE
             t1 == [t EXCEPT !.left_of_attempts_to_retry = left, !.last = "transient",
                             !.response = NoResponse]
         IN IF left = 0
            THEN NextAttempt([t1 EXCEPT !.result = DictUpdate(@, FailureFields(e)),
                                        !.exc = e], closed)
            ELSE NextAttempt(t1, closed)
    ELSE Raise(t, e)

\* Variant: the loop lacks its break, so a success is followed by another attempt.
OnBodyNoBreak(t) ==
    NextAttempt([t EXCEPT !.result = DictUpdate(@, SuccessFields(t.response)),
                          !.last = "ok"], FALSE)

\* Variant: the request is made with raise_for_status, so a status of 400 or
\* more raises ClientResponseError.
OnBodyRaiseForStatus(t) ==
    IF t.response.status >= 400
    THEN OnException(t, [type |-> "ClientResponseError", msg |-> "Not Found"], FALSE)
    ELSE Return([t EXCEPT !.result = DictUpdate(@, SuccessFields(t.response)),
                          !.last = "ok"])

\* response.read() returned: result.update({...}), then the else branch of the
\* try breaks out of the loop.
OnBody(t) ==
    Return([t EXCEPT !.result = DictUpdate(@, SuccessFields(t.response)),
                     !.last = "ok"])

\* asyncio delivers CancelledError at the await the task is suspended on.
Cancelled(t) ==
    LET c == [t EXCEPT !.pc = "cancelled", !.last = "cancelled", !.response = NoResponse]
    IN IF InGate(t) THEN ExitGate(c) ELSE c

\* -------------------------------------------------------------- json.dumps
KeyOrder == <<"url", "status_code", "content_length", "stream_reader", "body_length", "error">>

JsonValue(v) == IF v.type = "str" THEN "\"" \o v.val \o "\"" ELSE v.val

RECURSIVE JsonMembers(_, _)
JsonMembers(d, k) ==
    IF k > Len(KeyOrder) THEN ""
    ELSE IF KeyOrder[k] \notin DOMAIN d THEN JsonMembers(d, k + 1)
    ELSE (IF k = 1 THEN "" ELSE ", ")
         \o "\"" \o KeyOrder[k] \o "\": " \o JsonValue(d[KeyOrder[k]])
         \o JsonMembers(d, k + 1)

JsonObject(d) == "{" \o JsonMembers(d, 1) \o "}"

RECURSIVE JsonItems(_, _)
JsonItems(rs, i) ==
    IF i > Len(rs) THEN ""
    ELSE (IF i = 1 THEN "" ELSE ", ") \o JsonObject(rs[i]) \o JsonItems(rs, i + 1)

\* json.dumps(results) of a list of dicts, default separators.
JsonDumps(rs) == "[" \o JsonItems(rs, 1) \o "]"

\* with open(RESULT_FILE_NAME, 'w') as file: file.write(json.dumps(results))
WriteResultsToFile(fs, rs) == (RESULT_FILE_NAME :> JsonDumps(rs)) @@ fs

\* Variant: the return values in the order the tasks completed.
GatherAsCompleted(ts) == [k \in 1..Len(ts) |-> ts[finished[k]].result]

\* asyncio.gather(*tasks): the tasks' return values in the order of the tasks.
Gather(ts) == [i \in 1..Len(ts) |-> ts[i].result]

\* ------------------------------------------------------------------- Init
NoFiles == [f \in {} |-> ""]

\* Lists of every length up to MaxUrls, cycling through the pool, and the same
\* lists with their last line replaced by one yarl cannot parse.
GoodLists ==
    { [k \in 1..n |-> GoodPool[((k - 1) % Len(GoodPool)) + 1]] : n \in 0..MaxUrls }

BadLists == { [l EXCEPT ![Len(l)] = BracketUrl] : l \in GoodLists \ {<<>>} }

InputLists == GoodLists \cup BadLists

Init ==
    /\ urls \in InputLists
    /\ output \in OutputOptions
    /\ main_pc = "start"
    /\ task = <<>>
    /\ semaphore = 0
    /\ session_closed = FALSE
    /\ failed_requests_num = 0
    /\ results = <<>>
    /\ files = NoFiles
    /\ finished = <<>>

\* ---------------------------------------------------------------- actions
\* Task i moves to state new; the permits follow its acquire and release calls.
Step(i, new) ==
    /\ task' = [task EXCEPT ![i] = new]
    /\ semaphore' = semaphore - (new.acquired - task[i].acquired)
                              + (new.released - task[i].released)
    /\ finished' = IF new.pc = "returned" THEN Append(finished, i) ELSE finished

\* RequestManager.__init__ and the start of make_requests: one task per URL.
CreateMakeRequests ==
    /\ main_pc = "start"
    /\ IF \A k \in 1..Len(urls) : URLParses(urls[k])
       THEN /\ task' = [k \in 1..Len(urls) |-> NewTask]
            /\ semaphore' = SIMULTANEOUS_CONCURRENT_TASKS
            /\ main_pc' = "gather"
       ELSE /\ main_pc' = "raised"
            /\ UNCHANGED <<task, semaphore>>
    /\ UNCHANGED <<urls, output, session_closed, failed_requests_num, results, files,
                   finished>>

\* Variant: the task does not wait for a free permit.
AcquireUngated(i) ==
    /\ task[i].pc = "acquire"
    /\ Step(i, EnterGate(task[i], urls[i], session_closed))
    /\ UNCHANGED <<urls, output, main_pc, session_closed, failed_requests_num, results, files>>

\* async with self.semaphore: a task gets in when a permit is free.
Acquire(i) ==
    /\ task[i].pc = "acquire"
    /\ semaphore > 0
    /\ Step(i, EnterGate(task[i], urls[i], session_closed))
    /\ UNCHANGED <<urls, output, main_pc, session_closed, failed_requests_num, results, files>>

\* session.get delivered a response: the dict literal is evaluated up to
\* "await response.read()".
GetResponds(i) ==
    /\ task[i].pc = "get"
    /\ \E r \in Responses :
          Step(i, [task[i] EXCEPT !.pc = "read", !.response = r])
    /\ UNCHANGED <<urls, output, main_pc, session_closed, failed_requests_num, results, files>>

\* session.get or response.read raised.
AttemptRaises(i) ==
    /\ task[i].pc \in {"get", "read"}
    /\ \E e \in TransportErrors :
          /\ Step(i, OnException(task[i], e, session_closed))
          /\ failed_requests_num' =
                IF Recognized(e)
                THEN FailedRequestsNumSetter(failed_requests_num,
                                             REQUESTS_RETRIES_NUM_TO_REMOVE)
                ELSE failed_requests_num
    /\ UNCHANGED <<urls, output, main_pc, session_closed, results, files>>

\* response.read() returned the body.
ReadReturns(i) ==
    /\ task[i].pc = "read"
    /\ Step(i, OnBody(task[i]))
    /\ UNCHANGED <<urls, output, main_pc, session_closed, failed_requests_num, results, files>>

\* gather: every task returned; the session context closes the session.
GatherReturns ==
    /\ main_pc = "gather"
    /\ \A i \in Tasks : task[i].pc = "returned"
    /\ results' = Gather(task)
    /\ session_closed' = TRUE
    /\ main_pc' = "returned"
    /\ UNCHANGED <<urls, output, task, semaphore, failed_requests_num, files, finished>>

\* gather: a task raised; its exception leaves make_requests through the
\* session context, create_make_requests and main.  The other tasks go on.
GatherRaises ==
    /\ main_pc = "gather"
    /\ \E i \in Tasks : task[i].pc = "raised"
    /\ session_closed' = TRUE
    /\ main_pc' = "raised"
    /\ UNCHANGED <<urls, output, task, semaphore, failed_requests_num, results, files,
                   finished>>

\* asyncio.run cancels the tasks still pending once main has raised.
Cancel(i) ==
    /\ main_pc = "raised"
    /\ ~Ended(task[i])
    /\ Step(i, Cancelled(task[i]))
    /\ UNCHANGED <<urls, output, main_pc, session_closed, failed_requests_num, results, files>>

\* main: write_results_to_file(results)
WriteResults ==
    /\ main_pc = "returned"
    /\ files' = WriteResultsToFile(files, results)
    /\ main_pc' = "written"
    /\ UNCHANGED <<urls, output, task, semaphore, session_closed, failed_requests_num,
                   results, finished>>

Next ==
    \/ CreateMakeRequests
    \/ \E i \in Tasks : Acquire(i)
    \/ \E i \in Tasks : GetResponds(i)
    \/ \E i \in Tasks : AttemptRaises(i)
    \/ \E i \in Tasks : ReadReturns(i)
    \/ GatherReturns
    \/ GatherRaises
    \/ \E i \in Tasks : Cancel(i)
    \/ WriteResults

Spec == Init /\ [][Next]_vars

\* The event loop does not stop while a task or main can take a step, and
\* every awaited request ends.
FairSpec == Init /\ [][Next]_vars /\ WF_vars(Next)

\* ------------------------------------------------------------- vocabulary
\* RequestManager.__init__ completed and make_requests created the tasks.
Constructed == main_pc # "start" /\ Len(task) = Len(urls)
RunReturned == main_pc \in {"returned", "written"}
RunRaised == main_pc = "raised"
RunEnded == RunReturned \/ RunRaised

AttemptInFlight(t) == t.pc \in {"get", "read"}
Waiting(t) == t.pc = "acquire"
NumInFlight == Cardinality({i \in Tasks : AttemptInFlight(task[i])})

NumericKeys == {"status_code", "content_length", "stream_reader", "body_length"}
RecordKeys == NumericKeys \cup {"url", "error"}

Has(d, k) == k \in DOMAIN d

\* ------------------------------------------------------------------ claims

\* C1: when the run has returned, the result sequence has one record per
\* input URL, record i is the one task i produced, and its url field is the
\* input string i.
C1_OneRecordPerUrlInOrder ==
    RunReturned =>
        /\ Len(results) = Len(urls)
        /\ \A i \in 1..Len(urls) :
              /\ results[i] = task[i].result
              /\ results[i].url = PyStr(urls[i])

\* C2: once fetch attempts have been made and the run has ended, it has
\* returned (not raised) one record per input URL, and every URL whose final
\* attempt failed carries the failure in its error field.
C2_NeverRaises ==
    (RunEnded /\ \E i \in Tasks : task[i].attempts > 0) =>
        /\ RunReturned
        /\ Len(results) = Len(urls)
        /\ \A i \in Tasks :
              task[i].last # "ok" =>
                  Has(results[i], "error") /\ results[i].error # PyStr("")

\* C3: in every reachable state the number of tasks with an attempt in flight
\* is at most the cap.
C3_CapRespected == NumInFlight <= SIMULTANEOUS_CONCURRENT_TASKS

\* C3 witness: more URLs than the cap, the gate is full and a task waits.
C3_Witness ==
    /\ Len(urls) > SIMULTANEOUS_CONCURRENT_TASKS
    /\ NumInFlight = SIMULTANEOUS_CONCURRENT_TASKS
    /\ \E i \in Tasks : Waiting(task[i])

\* C4: a task that returned after its final attempt failed with a recognized
\* exception made exactly LIMIT_OF_ATTEMPTS_TO_RETRY attempts, and its record
\* has zero numeric fields and a non-empty error string; no task ever makes
\* more attempts than the limit.
C4_ExhaustedRetries ==
    \A i \in Tasks :
        /\ task[i].attempts <= LIMIT_OF_ATTEMPTS_TO_RETRY
        /\ (task[i].pc = "returned" /\ task[i].last = "transient") =>
              /\ task[i].attempts = LIMIT_OF_ATTEMPTS_TO_RETRY
              /\ task[i].left_of_attempts_to_retry = 0
              /\ task[i].result.status_code = PyInt(0)
              /\ task[i].result.content_length = PyInt(0)
              /\ task[i].result.body_length = PyInt(0)
              /\ task[i].result.error.type = "str"
              /\ task[i].result.error.val # ""

\* C4 witness: every attempt failed and the last exception had an empty message.
C4_Witness ==
    \E i \in Tasks :
        /\ task[i].pc = "returned" /\ task[i].last = "transient"
        /\ task[i].exc.msg = ""
        /\ task[i].attempts = LIMIT_OF_ATTEMPTS_TO_RETRY

\* C5: a task that returned after a successful attempt holds exactly the url
\* and the fields of that response, with an empty error, and used one unit of
\* its counter per earlier failure; once an attempt has succeeded the task
\* takes no further step.
C5_SuccessRecord ==
    \A i \in Tasks :
        task[i].last = "ok" =>
            /\ task[i].pc = "returned"
            /\ task[i].result =
                  DictUpdate([url |-> PyStr(StrOfURL(urls[i]))], SuccessFields(task[i].response))
            /\ task[i].result.status_code = PyInt(task[i].response.status)
            /\ task[i].result.error = PyStr("")
            /\ task[i].attempts =
                  LIMIT_OF_ATTEMPTS_TO_RETRY - task[i].left_of_attempts_to_retry + 1

C5_SuccessAfterFailures ==
    /\ []C5_SuccessRecord
    /\ [][\A i \in Tasks : task[i].last = "ok" => task'[i] = task[i]]_vars

\* C5 witness: a success on the third attempt.
C5_Witness ==
    \E i \in Tasks :
        /\ task[i].pc = "returned" /\ task[i].last = "ok"
        /\ task[i].attempts = 3
        /\ failed_requests_num >= 2

\* C6: every task acquires the gate at most once and releases it at most
\* once, only after acquiring it; a task that has ended, however it ended,
\* has released what it acquired; the free permits are the cap minus the tasks
\* inside the gate, hence never more than the cap, and all of them once every
\* task has ended.
C6_GateReleased ==
    Constructed =>
        /\ \A i \in Tasks :
              /\ task[i].released <= task[i].acquired
              /\ task[i].acquired <= 1
              /\ Ended(task[i]) => task[i].released = task[i].acquired
              /\ task[i].pc \in {"returned", "raised"} => task[i].released = 1
        /\ semaphore =
              SIMULTANEOUS_CONCURRENT_TASKS - Cardinality({i \in Tasks : InGate(task[i])})
        /\ semaphore <= SIMULTANEOUS_CONCURRENT_TASKS
        /\ (\A i \in Tasks : Ended(task[i])) => semaphore = SIMULTANEOUS_CONCURRENT_TASKS

\* C6 witness: the tasks ended in different ways, one of them with an
\* exception the except clause does not name, and all permits are back.
C6_Witness ==
    /\ Len(task) > 1
    /\ \A i \in Tasks : Ended(task[i])
    /\ \E i \in Tasks : task[i].pc = "raised" /\ task[i].released = 1
    /\ \E i \in Tasks : task[i].pc = "returned" /\ task[i].released = 1
    /\ semaphore = SIMULTANEOUS_CONCURRENT_TASKS

\* The record _fetch yields for URL u when its final attempt delivered
\* response r or, failing that, raised e.
RecordOf(u, ok, r, e) ==
    IF ok
    THEN [url |-> PyStr(StrOfURL(u)), status_code |-> PyInt(r.status),
          content_length |-> ContentLength(r.headers),
          stream_reader |-> PyInt(r.total_bytes), body_length |-> PyInt(r.body),
          error |-> PyStr("")]
    ELSE [url |-> PyStr(StrOfURL(u)), status_code |-> PyInt(0),
          content_length |-> PyInt(0), stream_reader |-> PyInt(0),
          body_length |-> PyInt(0),
          error |-> PyStr(IF e.msg = "" THEN "Something Went Wrong" ELSE e.msg)]

\* The number of attempts the outcome sequence of one URL allows: one more
\* than the failures before the first success, at most the limit.
AttemptsOf(t) ==
    IF t.last = "ok"
    THEN LIMIT_OF_ATTEMPTS_TO_RETRY - t.left_of_attempts_to_retry + 1
    ELSE LIMIT_OF_ATTEMPTS_TO_RETRY

\* C7: the result sequence is a function of the input list and of each URL's
\* own attempt outcomes: whenever the run has returned, record i is the record
\* of URL i's final outcome, whatever the interleaving was; and the run
\* returns rather than raises exactly when no URL's outcomes contain an
\* exception outside the recognized set.
C7_Deterministic ==
    /\ RunReturned =>
          /\ Len(results) = Len(urls)
          /\ \A i \in 1..Len(urls) :
                /\ results[i] = RecordOf(urls[i], task[i].last = "ok",
                                         task[i].response, task[i].exc)
                /\ task[i].attempts = AttemptsOf(task[i])
          /\ \A i \in Tasks : task[i].last \in {"ok", "transient"}
    /\ (RunRaised /\ Constructed) => \E i \in Tasks : task[i].last = "unexpected"

\* C7 witness: the tasks finished in the opposite order of the input and
\* with different outcomes.
C7_Witness ==
    /\ RunReturned
    /\ finished = <<2, 1>>
    /\ task[1].last = "transient" /\ task[2].last = "ok"
    /\ results[1].error # PyStr("") /\ results[2].error = PyStr("")

\* C8: a record has an empty error exactly when the task's final attempt
\* completed an HTTP exchange, it then carries that response's status code
\* whatever the status is, and a record with a non-empty error has all numeric
\* fields zero; the step in which the body of a response has been read,
\* whatever its status, ends the task at once with that status and an empty
\* error, without touching the retry counter, the attempt count or the failure
\* counter.
C8_RecordShape ==
    \A i \in Tasks :
        task[i].pc = "returned" =>
            /\ DOMAIN task[i].result = RecordKeys
            /\ task[i].result.error = PyStr("") <=> task[i].last = "ok"
            /\ task[i].last = "ok" =>
                  task[i].result.status_code = PyInt(task[i].response.status)
            /\ task[i].result.error # PyStr("") =>
                  \A k \in NumericKeys : task[i].result[k] = PyInt(0)

C8_ExchangeIsNoFailure ==
    /\ []C8_RecordShape
    /\ [][\A i \in Tasks :
            ReadReturns(i) =>
                /\ task'[i].pc = "returned"
                /\ task'[i].last = "ok"
                /\ task'[i].result.status_code = PyInt(task[i].response.status)
                /\ task'[i].result.error = PyStr("")
                /\ task'[i].left_of_attempts_to_retry = task[i].left_of_attempts_to_retry
                /\ task'[i].attempts = task[i].attempts
                /\ failed_requests_num' = failed_requests_num]_vars

\* C8 witness: a 404 on the first attempt, recorded with an empty error.
C8_Witness ==
    \E i \in Tasks :
        /\ task[i].pc = "returned"
        /\ task[i].result.status_code = PyInt(404)
        /\ task[i].result.error = PyStr("")
        /\ task[i].attempts = 1
        /\ task[i].left_of_attempts_to_retry = LIMIT_OF_ATTEMPTS_TO_RETRY
        /\ failed_requests_num = 0

\* The run is over: main has returned or raised, no task is left waiting for
\* the gate or inside it, and main has raised only if a URL did not parse or
\* an attempt raised an exception outside the recognized set.
RunOver ==
    /\ RunEnded
    /\ \A i \in Tasks : Ended(task[i])
    /\ RunRaised =>
          \/ \E k \in 1..Len(urls) : ~URLParses(urls[k])
          \/ \E i \in Tasks : task[i].last = "unexpected"

C10_WrittenToOutputOption ==
    main_pc = "written" =>
        /\ output \in DOMAIN files
        /\ files[output] = JsonDumps(results)

\* C11: a task whose attempt raised an exception outside the recognized set
\* makes no further attempt and has produced a failure record: it returned,
\* the numeric fields are zero and the error is a non-empty string.
C11_UnexpectedGivesFailureRecord ==
    \A i \in Tasks :
        task[i].last = "unexpected" =>
            /\ ~AttemptInFlight(task[i])
            /\ task[i].pc = "returned"
            /\ DOMAIN task[i].result = RecordKeys
            /\ \A k \in NumericKeys : task[i].result[k] = PyInt(0)
            /\ task[i].result.error.type = "str"
            /\ task[i].result.error # PyStr("")

\* The attempts a task's own outcomes account for: every failure spent one
\* unit of the task's counter, and a success or an exception outside the
\* recognized set ended one more attempt.
OwnAttempts(t) ==
    LIMIT_OF_ATTEMPTS_TO_RETRY - t.left_of_attempts_to_retry
        + (IF t.last = "transient" THEN 0 ELSE 1)

\* C12: each task has its own counter, and the number of attempts made for a
\* URL follows from that URL's own attempt outcomes: a task with an attempt
\* in flight has made one attempt per unit spent plus the current one, and a
\* task that has ended was ended by the outcome of one of its own attempts
\* (a success, its last allowed failure, or an exception its own request
\* raised), never by what happened to another URL's task.
C12_BudgetsIndependent ==
    \A i \in Tasks :
        /\ AttemptInFlight(task[i]) =>
              task[i].attempts = LIMIT_OF_ATTEMPTS_TO_RETRY
                                    - task[i].left_of_attempts_to_retry + 1
        /\ Ended(task[i]) =>
              /\ task[i].last \in {"ok", "transient", "unexpected"}
              /\ task[i].last = "transient" => task[i].left_of_attempts_to_retry = 0
              /\ task[i].last = "unexpected" => task[i].exc \in TransportErrors
              /\ task[i].attempts = OwnAttempts(task[i])

\* Within C12: a failed attempt of one task decrements that task's counter by
\* one and leaves every other task as it was.
C12_OwnCounterOnly ==
    [][\A i \in Tasks :
          AttemptRaises(i) =>
              /\ task'[i].left_of_attempts_to_retry
                    \in {task[i].left_of_attempts_to_retry,
                         task[i].left_of_attempts_to_retry - 1}
              /\ \A j \in Tasks \ {i} : task'[j] = task[j]]_vars

OutcomeKeys == {"status_code", "content_length", "body_length", "error"}

\* C13: the outcome fields are written once per URL.  A task that is still
\* attempting, whatever number of its attempts failed (at session.get or
\* while reading the body), has a record holding the url only; the step that
\* writes the outcome fields writes all of them and ends the task; and a
\* record that holds outcome fields never changes again.
C13_WrittenOnce ==
    /\ [](\A i \in Tasks :
            /\ AttemptInFlight(task[i]) => DOMAIN task[i].result = {"url"}
            /\ task[i].pc = "returned" => OutcomeKeys \subseteq DOMAIN task[i].result
            /\ (OutcomeKeys \cap DOMAIN task[i].result # {}) => task[i].pc = "returned")
    /\ [][\A i \in Tasks :
            /\ (OutcomeKeys \cap DOMAIN task[i].result # {}) =>
                    task'[i].result = task[i].result
            /\ (AttemptRaises(i) /\ task'[i].left_of_attempts_to_retry # 0) =>
                    task'[i].result = task[i].result
            /\ (AttemptInFlight(task[i]) /\ task'[i].result # task[i].result) =>
                    /\ task'[i].pc = "returned"
                    /\ OutcomeKeys \subseteq DOMAIN task'[i].result
                    /\ task'[i].result.url = task[i].result.url]_vars

\* C13 witness: a task that failed while reading the body of an earlier
\* attempt is attempting again with a record that holds the url only, and
\* another task has its outcome recorded.
C13_Witness ==
    \E i, j \in Tasks :
        /\ task[i].pc = "read" /\ task[i].attempts >= 2
        /\ DOMAIN task[i].result = {"url"}
        /\ task[j].pc = "returned" /\ task[j].last = "transient"
        /\ OutcomeKeys \subseteq DOMAIN task[j].result

\* The integer a Content-Length header declares; 0 when the header is absent.
DeclaredLength(headers) ==
    IF "content-length" \in DOMAIN headers
    THEN CHOOSE n \in 0..9 : ToString(n) = headers["content-length"]
    ELSE 0

\* C14: a task that returned after a successful attempt has a record with
\* the status code of the response, content_length equal to the integer the
\* Content-Length header declares (0 without the header), body_length equal
\* to the number of bytes read, and an empty error.
C14_SuccessFieldValues ==
    \A i \in Tasks :
        (task[i].pc = "returned" /\ task[i].last = "ok") =>
            /\ task[i].result.status_code = PyInt(task[i].response.status)
            /\ task[i].result.content_length
                  = PyInt(DeclaredLength(task[i].response.headers))
            /\ task[i].result.body_length = PyInt(task[i].response.body)
            /\ task[i].result.error = PyStr("")

\* The failed attempts of one task, counted from its attempts: every attempt
\* made failed, except the one in flight and the one that ended the task by a
\* success, by an exception of its own request outside the recognized set,
\* or by cancellation.
FailedAttempts(t) ==
    IF t.attempts = 0 THEN 0
    ELSE IF Ended(t) /\ (t.last = "transient" \/ t.exc = SessionClosedError)
         THEN t.attempts
         ELSE t.attempts - 1

RECURSIVE TotalFailedAttempts(_)
TotalFailedAttempts(k) ==
    IF k = 0 THEN 0 ELSE FailedAttempts(task[k]) + TotalFailedAttempts(k - 1)

C16_GateHeldAcrossRetries ==
    /\ [](\A i \in Tasks :
            /\ task[i].acquired <= 1
            /\ AttemptInFlight(task[i]) =>
                  task[i].acquired = 1 /\ task[i].released = 0
            /\ task[i].attempts > 0 => task[i].acquired = 1
            /\ task[i].released > 0 => Ended(task[i]))
    /\ [][\A i \in Tasks :
            /\ task'[i].attempts > task[i].attempts =>
                  /\ InGate(task'[i])
                  /\ task[i].attempts >= 1 =>
                        InGate(task[i]) /\ task'[i].acquired = task[i].acquired
            /\ task'[i].acquired > task[i].acquired =>
                  task[i].pc = "acquire" /\ task[i].attempts = 0
            /\ task'[i].released > task[i].released => Ended(task'[i])]_vars

\* C16 witness: a task is in its third attempt or a later one, still holding
\* the only permit, and another task is waiting for it.
C16_Witness ==
    \E i, j \in Tasks :
        /\ task[i].pc = "get" /\ task[i].attempts >= 3
        /\ InGate(task[i]) /\ semaphore = 0
        /\ Waiting(task[j])

\* C17: the session is closed only when every task has ended: in no state
\* is it closed while a task still waits for the gate or has an attempt in
\* flight.
C17_ClosedAfterAllTasks ==
    session_closed => \A i \in Tasks : Ended(task[i])

====
